---- MODULE Spec2Model ----
(***************************************************************************)
(* conans/build_info/build_info.py                                         *)
(*                                                                         *)
(* Two state machines over one set of variables:                           *)
(*   SpecLock   BuildInfoCreator.process_lockfile: the scan of the         *)
(*              lockfile nodes, the artifacts of every modified node and   *)
(*              the recursive _gather_deps over its requires;              *)
(*   SpecMerge  update_build_info / merge_buildinfo: documents merged in   *)
(*              sequence, in place, as the code does.                      *)
(* Strings are Python strings; None stands for Python's None (a key that   *)
(* the serialised document omits).                                         *)
(***************************************************************************)
EXTENDS Naturals, Sequences, FiniteSets, TLC

VARIABLES
    requires,       \* lockfile: node uid -> set of required node uids
    modified,       \* lockfile: the node uids with "modified" set
    multi_module,   \* BuildInfoCreator._multi_module
    pc,             \* position in process_lockfile
    cur,            \* the node the outer loop (line 169) is at
    slot,           \* index of the current entry of node["requires"] (line 190)
    form,           \* which closure runs for that entry: "recipe" or "package"
    stack,          \* the active _gather_deps calls, innermost last
    modules,        \* the defaultdict of line 156: module key -> module
    calls,          \* per node uid: calls of func in the current top-level _gather_deps
    err,            \* the exception process_lockfile ended with, or None
    docs,           \* update_build_info: the documents of the files, in order
    fileno,         \* update_build_info: index of the next file (line 318)
    build_info,     \* update_build_info: the accumulated document (the lhs object)
    before,         \* build_info as it was when the last merge_buildinfo was called
    mpc,            \* position in update_build_info
    merr            \* the exception update_build_info ended with, or None

lockvars == <<requires, modified, multi_module, pc, cur, slot, form, stack, modules,
              calls, err>>

mergevars == <<docs, fileno, build_info, before, mpc, merr>>

vars == <<lockvars, mergevars>>

None == "None"

\* ---------------------------------------------------------------- bounds

NumNodes == 4
ExtraDepth == 2
MaxBackEdges == 1

Nodes == 1..NumNodes

\* The interpreter's recursion limit, scaled down: deeper than any acyclic
\* chain of the bounded graphs, so only a cycle reaches it.
RecursionLimit == NumNodes + ExtraDepth

\* ---------------------------------------------------------------- the cache

Wrap(t, n) == t[((n - 1) % Len(t)) + 1]

RefNames == <<"libfoo", "libfoo", "libbar", "libbaz">>
RefUsers == <<"", "", "", "acme">>
Pids == <<"p1", "p2", "p3", "p4", "p5", "p6">>

\* What parse_pref returns for node["pref"] (rrev and prev only shape the
\* request url of the sources lookup, which the response below abstracts).
parse_pref(n) ==
    [name |-> Wrap(RefNames, n), version |-> "1.0", user |-> Wrap(RefUsers, n),
     channel |-> IF Wrap(RefUsers, n) = "" THEN "" ELSE "stable",
     pid |-> Wrap(Pids, n)]

_get_reference(r) ==
    IF r.user # "" /\ r.channel # ""
    THEN r.name \o "/" \o r.version \o "@" \o r.user \o "/" \o r.channel
    ELSE r.name \o "/" \o r.version

_get_package_reference(r) == _get_reference(r) \o ":" \o r.pid

File(file, sha1, md5) == [file |-> file, sha1 |-> sha1, md5 |-> md5]

\* metadata.recipe.checksums of the package layout of a reference, in dict order.
\* libfoo exports its sources; libbar and libbaz do not; libbaz's conanfile.py
\* has the content (hence the sha1) of libfoo's.
recipe_checksums(r) ==
    IF r.name = "libfoo"
    THEN <<File("conanfile.py", "aaa", "111"), File("conan_sources.tgz", "ccc", "333")>>
    ELSE IF r.name = "libbar"
    THEN <<File("conanfile.py", "ddd", "444"), File("conanmanifest.txt", "eee", "555")>>
    ELSE <<File("conanfile.py", "aaa", "111")>>

\* metadata.packages[pid].checksums: every binary package of libfoo ships the
\* same header next to its own library.
package_checksums(r) ==
    IF r.name = "libfoo"
    THEN <<File("lib.a", "bin-" \o r.pid, "md5-" \o r.pid), File("api.h", "hhh", "888")>>
    ELSE <<File("lib.a", "bin-" \o r.pid, "md5-" \o r.pid)>>

\* The metadata service's answers to the lookup of conan_sources.tgz.
Response(status, r) ==
    [status |-> status, sha1 |-> "src-" \o r.name, checksums |-> "checksums-" \o r.name]

Responses(r) == {Response(s, r) : s \in {200, 401, 500}}

\* ---------------------------------------------------------------- artifacts

Artifact(sha1, md5, name, id) == [sha1 |-> sha1, md5 |-> md5, name |-> name, id |-> id]

\* ret[sha1] = {...}: ret is a dict keyed by sha1.
dict_put(ret, art) == {a \in ret : a.sha1 # art.sha1} \cup {art}

checksum_artifact(f, use_id, prefix) ==
    Artifact(f.sha1, f.md5,
             IF use_id THEN None ELSE prefix \o f.file,
             IF use_id THEN prefix \o f.file ELSE None)

RECURSIVE checksum_loop(_, _, _, _)
checksum_loop(data, i, use_id, prefix) ==
    IF i = 0 THEN {}
    ELSE dict_put(checksum_loop(data, i - 1, use_id, prefix),
                  checksum_artifact(data[i], use_id, prefix))

sources_artifact(response, use_id) ==
    Artifact(response.sha1, response.checksums, "conan_sources.tgz", None)

need_sources(data, is_package) ==
    ~is_package /\ ~(\E i \in 1..Len(data) : data[i].file = "conan_sources.tgz")

_get_metadata_artifacts(data, is_package, use_id, prefix, response) ==
    LET ret == checksum_loop(data, Len(data), use_id, prefix)
    IN  IF ~need_sources(data, is_package)
        THEN [error |-> None, artifacts |-> ret]
        ELSE IF response.status = 200
        THEN [error |-> None, artifacts |-> dict_put(ret, sources_artifact(response, use_id))]
        ELSE IF response.status = 401
        THEN [error |-> "AuthenticationException", artifacts |-> {}]
        ELSE [error |-> "RequestErrorException", artifacts |-> {}]

_get_recipe_artifacts(r, add_prefix, use_id, response) ==
    _get_metadata_artifacts(recipe_checksums(r), FALSE, use_id,
                            IF add_prefix THEN _get_reference(r) \o " :: " ELSE "",
                            response)

_get_package_artifacts(r, add_prefix, use_id, response) ==
    _get_metadata_artifacts(package_checksums(r), TRUE, use_id,
                            IF add_prefix THEN _get_package_reference(r) \o " :: " ELSE "",
                            response)

\* func of _gather_deps: self._get_recipe_artifacts or self._get_package_artifacts.
func(f, r, add_prefix, use_id, response) ==
    IF f = "recipe" THEN _get_recipe_artifacts(r, add_prefix, use_id, response)
    ELSE _get_package_artifacts(r, add_prefix, use_id, response)

\* The answers the service may give to a call of func: it is asked only for
\* a recipe whose checksum table lacks conan_sources.tgz.
Answers(f, r) ==
    IF f = "recipe" /\ need_sources(recipe_checksums(r), FALSE)
    THEN Responses(r) ELSE {Response(200, r)}

\* ---------------------------------------------------------------- the lockfile

RECURSIVE SortedSeq(_)
SortedSeq(S) ==
    IF S = {} THEN <<>>
    ELSE LET m == CHOOSE x \in S : \A y \in S : x <= y
         IN  <<m>> \o SortedSeq(S \ {m})

\* node_content.get("requires", {}).items(), in the order of the slots.
requires_items(n) == SortedSeq(requires[n])

ForwardEdges == {e \in Nodes \X Nodes : e[1] < e[2]}
BackEdges == {e \in Nodes \X Nodes : e[1] >= e[2]}

Graph(edges) == [n \in Nodes |-> {m \in Nodes : <<n, m>> \in edges}]

\* ---------------------------------------------------------------- process_lockfile

EmptyModule == [id |-> None, artifacts |-> {}, dependencies |-> {}]

module_get(mods, key) == IF key \in DOMAIN mods THEN mods[key] ELSE EmptyModule

module_set(mods, key, m) ==
    [k \in DOMAIN mods \cup {key} |-> IF k = key THEN m ELSE mods[k]]

recipe_key(n) == _get_reference(parse_pref(n))

package_key(n, mm) ==
    IF mm THEN _get_package_reference(parse_pref(n)) ELSE recipe_key(n)

module_key(n, f, mm) == IF f = "recipe" THEN recipe_key(n) ELSE package_key(n, mm)

add_artifacts(mods, key, arts) ==
    LET m == module_get(mods, key)
    IN  module_set(mods, key, [m EXCEPT !.id = key, !.artifacts = @ \cup arts])

add_dependencies(mods, key, arts) ==
    LET m == module_get(mods, key)
    IN  module_set(mods, key, [m EXCEPT !.dependencies = @ \cup arts])

\* A _gather_deps that drops what the recursive call returns (C10 fails on it).
gather_update_lost(artifacts, returned) == artifacts

\* artifacts.update(_gather_deps(id_node, contents, func))
gather_update(artifacts, returned) == artifacts \cup returned

Frame(n, arts) == [node |-> n, next |-> 1, artifacts |-> arts]

\* The lockfiles: any requires from a node to later nodes, and at most
\* `backs` requires to the node itself or to earlier ones (only these close cycles).
Lockfiles(backs) ==
    {Graph(fwd \cup back) :
        fwd \in SUBSET ForwardEdges,
        back \in {b \in SUBSET BackEdges : Cardinality(b) <= backs}}

LockStart(lockfiles) ==
    /\ requires \in lockfiles
    /\ modified \in SUBSET Nodes
    /\ multi_module \in BOOLEAN
    /\ pc = "scan"
    /\ cur = 1
    /\ slot = 1
    /\ form = "recipe"
    /\ stack = <<>>
    /\ modules = <<>>
    /\ calls = [n \in Nodes |-> 0]
    /\ err = None

Raise(e) ==
    /\ pc' = "error"
    /\ err' = e
    /\ UNCHANGED <<cur, slot, form, stack, modules, calls>>

\* line 171: a node that is not modified is passed over.
SkipNode ==
    /\ UNCHANGED mergevars
    /\ pc = "scan" /\ cur <= NumNodes /\ cur \notin modified
    /\ cur' = cur + 1
    /\ UNCHANGED <<requires, modified, multi_module, pc, slot, form, stack, modules,
                   calls, err>>

\* lines 172-186: the recipe module and the package module of a modified node.
ModuleArtifacts ==
    /\ UNCHANGED mergevars
    /\ pc = "scan" /\ cur <= NumNodes /\ cur \in modified
    /\ \E response \in Answers("recipe", parse_pref(cur)) :
          LET r == parse_pref(cur)
              rec == _get_recipe_artifacts(r, ~multi_module, FALSE, response)
              pkg == _get_package_artifacts(r, ~multi_module, FALSE, response)
              m1 == add_artifacts(modules, recipe_key(cur), rec.artifacts)
          IN  IF rec.error # None THEN Raise(rec.error)
              ELSE /\ modules' = add_artifacts(m1, package_key(cur, multi_module),
                                               pkg.artifacts)
                   /\ pc' = "deps"
                   /\ slot' = 1
                   /\ form' = "recipe"
                   /\ UNCHANGED <<cur, stack, calls, err>>
    /\ UNCHANGED <<requires, modified, multi_module>>

\* lines 159-160 of a call _gather_deps(n, contents, func).
Enter(n, count) ==
    \E response \in Answers(form, parse_pref(n)) :
        LET got == func(form, parse_pref(n), TRUE, TRUE, response)
        IN  IF got.error # None THEN Raise(got.error)
            ELSE /\ stack' = Append(stack, Frame(n, got.artifacts))
                 /\ calls' = [count EXCEPT ![n] = @ + 1]
                 /\ UNCHANGED <<pc, cur, slot, form, modules, err>>

\* lines 190-194: the top-level call for one entry of node["requires"].
GatherTop ==
    /\ UNCHANGED mergevars
    /\ pc = "deps" /\ stack = <<>> /\ slot <= Len(requires_items(cur))
    /\ Enter(requires_items(cur)[slot], [n \in Nodes |-> 0])
    /\ UNCHANGED <<requires, modified, multi_module>>

\* lines 161-162: the recursive call for the next entry of the callee's requires.
GatherRecurse ==
    /\ UNCHANGED mergevars
    /\ pc = "deps" /\ stack # <<>>
    /\ LET top == stack[Len(stack)]
       IN  /\ top.next <= Len(requires_items(top.node))
           /\ IF Len(stack) >= RecursionLimit THEN Raise("RecursionError")
              ELSE Enter(requires_items(top.node)[top.next], calls)
    /\ UNCHANGED <<requires, modified, multi_module>>

\* line 163: return artifacts, into the caller's update.
GatherReturn ==
    /\ UNCHANGED mergevars
    /\ pc = "deps" /\ stack # <<>>
    /\ LET d == Len(stack)
           top == stack[d]
       IN  /\ top.next > Len(requires_items(top.node))
           /\ IF d > 1
              THEN /\ stack' = [SubSeq(stack, 1, d - 1) EXCEPT
                                  ![d - 1].artifacts = gather_update(@, top.artifacts),
                                  ![d - 1].next = @ + 1]
                   /\ UNCHANGED <<modules, slot, form>>
              ELSE /\ stack' = <<>>
                   /\ modules' = add_dependencies(modules,
                                    module_key(cur, form, multi_module), top.artifacts)
                   /\ form' = IF form = "recipe" THEN "package" ELSE "recipe"
                   /\ slot' = IF form = "recipe" THEN slot ELSE slot + 1
    /\ UNCHANGED <<requires, modified, multi_module, pc, cur, calls, err>>

\* the loop of line 190 is exhausted (or line 189 found no requires).
NextNode ==
    /\ UNCHANGED mergevars
    /\ pc = "deps" /\ stack = <<>> /\ slot > Len(requires_items(cur))
    /\ pc' = "scan"
    /\ cur' = cur + 1
    /\ UNCHANGED <<requires, modified, multi_module, slot, form, stack, modules,
                   calls, err>>

\* line 198: return modules.
Finish ==
    /\ UNCHANGED mergevars
    /\ pc = "scan" /\ cur > NumNodes
    /\ pc' = "done"
    /\ UNCHANGED <<requires, modified, multi_module, cur, slot, form, stack, modules,
                   calls, err>>


\* ---------------------------------------------------------------- documents

\* A parsed build-info document; empty is the {} update_build_info starts from.
Doc(version, name, number, mods) ==
    [empty |-> FALSE, version |-> version, name |-> name, number |-> number,
     modules |-> mods]

EmptyDoc ==
    [empty |-> TRUE, version |-> None, name |-> None, number |-> None, modules |-> <<>>]

Module(id, arts, deps) == [id |-> id, artifacts |-> arts, dependencies |-> deps]

\* ---------------------------------------------------------------- merge

\* it[cmp_key]; None is a key the entry does not have (a KeyError).
cmp_value(art, cmp_key) == IF cmp_key = "name" THEN art.name ELSE art.id

has_key(ret, key) == \E i \in 1..Len(ret) : ret[i].key = key

value_of(ret, key) == ret[CHOOSE i \in 1..Len(ret) : ret[i].key = key].value

\* ret[key] = art on an insertion-ordered dict.
dict_set(ret, key, art) ==
    IF has_key(ret, key)
    THEN [i \in 1..Len(ret) |-> IF ret[i].key = key THEN [key |-> key, value |-> art]
                                 ELSE ret[i]]
    ELSE Append(ret, [key |-> key, value |-> art])

\* line 285: {it[cmp_key]: it for it in lhs[key]}
RECURSIVE dict_of(_, _, _)
dict_of(list, i, cmp_key) ==
    IF i = 0 THEN [error |-> None, ret |-> <<>>]
    ELSE LET d == dict_of(list, i - 1, cmp_key)
         IN  IF d.error # None THEN d
             ELSE IF cmp_value(list[i], cmp_key) = None
             THEN [error |-> "KeyError", ret |-> d.ret]
             ELSE [error |-> None,
                   ret |-> dict_set(d.ret, cmp_value(list[i], cmp_key), list[i])]

\* line 289: assert art[cmp_key] == ret[art_cmp_key][cmp_key]
artifact_assert(art, held, cmp_key) == cmp_value(art, cmp_key) = cmp_value(held, cmp_key)

\* lines 286-293: the loop over rhs[key], from entry i on.
RECURSIVE merge_loop(_, _, _, _)
merge_loop(ret, list, i, cmp_key) ==
    IF i > Len(list) THEN [error |-> None, ret |-> ret]
    ELSE LET art == list[i]
             art_cmp_key == cmp_value(art, cmp_key)
         IN  IF art_cmp_key = None THEN [error |-> "KeyError", ret |-> ret]
             ELSE IF has_key(ret, art_cmp_key)
             THEN IF artifact_assert(art, value_of(ret, art_cmp_key), cmp_key)
                  THEN merge_loop(ret, list, i + 1, cmp_key)
                  ELSE [error |-> "AssertionError(artifact)", ret |-> ret]
             ELSE merge_loop(dict_set(ret, art_cmp_key, art), list, i + 1, cmp_key)

merge_artifacts(lhs_list, rhs_list, cmp_key) ==
    LET d == dict_of(lhs_list, Len(lhs_list), cmp_key)
        m == IF d.error # None THEN d ELSE merge_loop(d.ret, rhs_list, 1, cmp_key)
    IN  [error |-> m.error, list |-> [i \in 1..Len(m.ret) |-> m.ret[i].value]]

\* A find_module whose comparison never matches, so that it always appends
\* (C6 fails on it).
find_module_appends(mods, module_id) ==
    [modules |-> Append(mods, Module(module_id, <<>>, <<>>)), index |-> Len(mods) + 1]

\* find_module: the index of the module in build_info["modules"], appended when absent.
find_module(mods, module_id) ==
    IF \E i \in 1..Len(mods) : mods[i].id = module_id
    THEN [modules |-> mods,
          index |-> CHOOSE i \in 1..Len(mods) :
                        /\ mods[i].id = module_id
                        /\ \A j \in 1..(i - 1) : mods[j].id # module_id]
    ELSE [modules |-> Append(mods, Module(module_id, <<>>, <<>>)),
          index |-> Len(mods) + 1]

\* lines 307-312: the loop over rhs["modules"], from module i on; mods is
\* lhs["modules"], changed in place.
RECURSIVE merge_modules(_, _, _)
merge_modules(mods, rhs_modules, i) ==
    IF i > Len(rhs_modules) THEN [error |-> None, modules |-> mods]
    ELSE LET rhs_module == rhs_modules[i]
             found == find_module(mods, rhs_module.id)
             lhs_module == found.modules[found.index]
             arts == merge_artifacts(lhs_module.artifacts, rhs_module.artifacts, "name")
             mods1 == [found.modules EXCEPT ![found.index].artifacts = arts.list]
             deps == merge_artifacts(lhs_module.dependencies, rhs_module.dependencies,
                                     "id")
             mods2 == [mods1 EXCEPT ![found.index].dependencies = deps.list]
         IN  IF arts.error # None THEN [error |-> arts.error, modules |-> found.modules]
             ELSE IF deps.error # None THEN [error |-> deps.error, modules |-> mods1]
             ELSE merge_modules(mods2, rhs_modules, i + 1)

\* lines 303-305
compatible(lhs, rhs) ==
    /\ lhs.version = rhs.version
    /\ lhs.name = rhs.name
    /\ lhs.number = rhs.number

\* A merge_buildinfo that asserts compatibility after the loop over the
\* modules instead of before it (C9 fails on it).
merge_buildinfo_late(lhs, rhs) ==
    IF lhs.empty \/ rhs.empty
    THEN [error |-> None, value |-> IF lhs.empty THEN rhs ELSE lhs, lhs |-> lhs]
    ELSE LET m == merge_modules(lhs.modules, rhs.modules, 1)
             merged == [lhs EXCEPT !.modules = m.modules]
         IN  IF m.error = None /\ ~compatible(lhs, rhs)
             THEN [error |-> "AssertionError(compatible)", value |-> merged, lhs |-> merged]
             ELSE [error |-> m.error, value |-> merged, lhs |-> merged]

\* merge_buildinfo: error is the exception raised (None when it returns), value the
\* document returned, lhs the lhs object as the call leaves it.
merge_buildinfo(lhs, rhs) ==
    IF lhs.empty \/ rhs.empty
    THEN [error |-> None, value |-> IF lhs.empty THEN rhs ELSE lhs, lhs |-> lhs]
    ELSE IF ~compatible(lhs, rhs)
    THEN [error |-> "AssertionError(compatible)", value |-> lhs, lhs |-> lhs]
    ELSE LET m == merge_modules(lhs.modules, rhs.modules, 1)
             merged == [lhs EXCEPT !.modules = m.modules]
         IN  [error |-> m.error, value |-> merged, lhs |-> merged]

\* ---------------------------------------------------------------- the documents merged

X == [sha1 |-> "X", md5 |-> "md5-X"]
Y == [sha1 |-> "Y", md5 |-> "md5-Y"]

Named(name, c) == Artifact(c.sha1, c.md5, name, None)
Identified(id, c) == Artifact(c.sha1, c.md5, None, id)

\* The artifacts of a module of a created document: named, the names distinct.
ArtifactLists == {<<Named("a", X)>>, <<Named("a", Y)>>, <<Named("b", X)>>}

\* Its dependencies: identified, the ids distinct; but the conan_sources.tgz
\* that line 110 fetches is named, also among dependencies.
DependencyLists ==
    {<<>>, <<Identified("i", X)>>, <<Identified("i", Y)>>,
     <<Named("conan_sources.tgz", X)>>}

Contents ==
    {c \in [artifacts : ArtifactLists, dependencies : DependencyLists] :
        c.artifacts = <<Named("a", X)>> \/ c.dependencies \in {<<>>, <<Identified("i", X)>>}}

OneModule == {<<Module(id, c.artifacts, c.dependencies)>> : id \in {"m", "n"}, c \in Contents}

TwoModules ==
    {<<Module(p[1], <<Named("a", X)>>, <<>>),
       Module(p[2], <<Named("b", X)>>, <<Identified("i", X)>>)>> :
        p \in {<<"m", "n">>, <<"n", "m">>}}

Headers ==
    {<<"1.0.1", "build", "1">>, <<"1.0.0", "build", "1">>, <<"1.0.1", "other", "1">>,
     <<"1.0.1", "build", "2">>}

Session == <<"1.0.1", "build", "1">>

WithHeader(h, mods) == Doc(h[1], h[2], h[3], mods)

\* Documents of one build session, and the empty document.
SessionDocs == {WithHeader(Session, mods) : mods \in {<<>>} \cup OneModule \cup TwoModules}
                  \cup {EmptyDoc}

\* The same with documents of other sessions.
ForeignDocs(hs) ==
    {WithHeader(h, <<Module("m", c.artifacts, <<>>)>>) : h \in hs, c \in Contents}

\* ---------------------------------------------------------------- update_build_info

LockIdle ==
    /\ requires = [n \in Nodes |-> {}]
    /\ modified = {}
    /\ multi_module = TRUE
    /\ pc = "idle"
    /\ cur = 1
    /\ slot = 1
    /\ form = "recipe"
    /\ stack = <<>>
    /\ modules = <<>>
    /\ calls = [n \in Nodes |-> 0]
    /\ err = None

MergeIdle ==
    /\ docs = <<>>
    /\ fileno = 1
    /\ build_info = EmptyDoc
    /\ before = EmptyDoc
    /\ mpc = "idle"
    /\ merr = None

MergeStart ==
    /\ \E a \in SessionDocs,
          b \in SessionDocs \cup ForeignDocs(Headers),
          c \in SessionDocs \cup ForeignDocs({<<"1.0.1", "build", "2">>}) :
            docs = <<a, b, c>>
    /\ fileno = 1
    /\ build_info = EmptyDoc
    /\ before = EmptyDoc
    /\ mpc = "loop"
    /\ merr = None

\* lines 318-322: build_info = merge_buildinfo(build_info, data)
Update ==
    /\ UNCHANGED lockvars
    /\ mpc = "loop" /\ fileno <= Len(docs)
    /\ LET m == merge_buildinfo(build_info, docs[fileno])
       IN  /\ before' = build_info
           /\ fileno' = fileno + 1
           /\ IF m.error # None
              THEN /\ mpc' = "error"
                   /\ merr' = m.error
                   /\ build_info' = m.lhs
              ELSE /\ build_info' = m.value
                   /\ UNCHANGED <<mpc, merr>>
    /\ UNCHANGED docs

\* lines 324-325: the merged document is written.
WriteOutput ==
    /\ UNCHANGED lockvars
    /\ mpc = "loop" /\ fileno > Len(docs)
    /\ mpc' = "done"
    /\ UNCHANGED <<docs, fileno, build_info, before, merr>>

MergeNext ==
    \/ Update
    \/ WriteOutput

MergeInit == LockIdle /\ MergeStart

SpecMerge == MergeInit /\ [][MergeNext]_vars

LockNext ==
    \/ SkipNode
    \/ ModuleArtifacts
    \/ GatherTop
    \/ GatherRecurse
    \/ GatherReturn
    \/ NextNode
    \/ Finish

LockInit == LockStart(Lockfiles(MaxBackEdges)) /\ MergeIdle

SpecLock == LockInit /\ [][LockNext]_vars

\* process_lockfile on the acyclic lockfiles alone.
LockDagInit == LockStart(Lockfiles(0)) /\ MergeIdle

SpecLockDag == LockDagInit /\ [][LockNext]_vars

\* ================================================================ process_lockfile: properties

Forms == {"recipe", "package"}

RECURSIVE closure_of(_, _)
closure_of(S, n) ==
    IF n = 0 THEN S
    ELSE closure_of(S \cup UNION {requires[x] : x \in S}, n - 1)

\* The nodes reachable from n through one or more requires edges.
Reachable(n) == closure_of(requires[n], NumNodes)

Acyclic == \A n \in Nodes : n \notin Reachable(n)

\* A requires-cycle lies among the nodes _gather_deps is started on or descends to.
CycleVisited == \E m \in modified : \E x \in Reachable(m) : x \in Reachable(x)

\* C2: when a requires-cycle is reachable from a required child of a modified
\* node, process_lockfile does not return modules, and when it fails it fails
\* with a graph-cycle error (or an error of the metadata service met before the
\* cycle closed), never by exhausting the call stack.
C2_CycleRejected ==
    CycleVisited =>
        /\ pc # "done"
        /\ pc = "error" =>
              err \in {"GraphCycleError", "AuthenticationException", "RequestErrorException"}

\* C3: within one top-level _gather_deps call func is called at most once for
\* each node uid (stated for acyclic graphs, where the call returns).
C3_ResolvedOnce == Acyclic => \A n \in Nodes : calls[n] <= 1

UniqueSha1(S) == \A x \in S : \A y \in S : x.sha1 = y.sha1 => x = y

\* C4: no artifact set of _gather_deps, and no module's dependencies, holds
\* two distinct entries with the same sha1.
C4_UniqueSha1 ==
    /\ \A i \in DOMAIN stack : UniqueSha1(stack[i].artifacts)
    /\ \A key \in DOMAIN modules : UniqueSha1(modules[key].dependencies)

\* C5: every entry of a module's artifacts has name set and id empty, every
\* entry of a module's dependencies has id set and name empty.
C5_NameXorId ==
    \A key \in DOMAIN modules :
        /\ \A x \in modules[key].artifacts : x.name # None /\ x.id = None
        /\ \A x \in modules[key].dependencies : x.id # None /\ x.name = None

\* What func returns for node d asked in dependency form, the service answering.
DependencyForm(f, d) ==
    func(f, parse_pref(d), TRUE, TRUE, Response(200, parse_pref(d))).artifacts

ExpectedDependencies(key) ==
    UNION {DependencyForm(t[1], t[3]) :
             t \in {u \in Forms \X modified \X Nodes :
                      /\ module_key(u[2], u[1], multi_module) = key
                      /\ u[3] \in Reachable(u[2])}}

\* C10: when process_lockfile returns, the modules are those of the modified
\* nodes, and the dependencies of each are exactly the dependency-form
\* artifacts (recipe form under the recipe key, package form under the package
\* key) of the nodes reachable through one or more requires edges from the
\* modified nodes of that module; none for a modified node without requires.
C10_Dependencies ==
    pc = "done" =>
        /\ DOMAIN modules = {module_key(m, f, multi_module) : m \in modified, f \in Forms}
        /\ \A key \in DOMAIN modules :
              modules[key].dependencies = ExpectedDependencies(key)

\* C10 witness: modules returned where a modified node depends on a node only
\* through another node, and another modified node requires nothing.
C10_Witness ==
    /\ pc = "done"
    /\ \E m \in modified : \E d \in Reachable(m) :
          /\ d \notin requires[m]
          /\ DependencyForm("package", d) \subseteq
                modules[module_key(m, "package", multi_module)].dependencies
    /\ \E m \in modified :
          /\ requires[m] = {}
          /\ modules[module_key(m, "package", multi_module)].dependencies = {}

\* ================================================================ merge_buildinfo: properties

Range(list) == {list[i] : i \in 1..Len(list)}

ModuleIds(d) == {d.modules[i].id : i \in 1..Len(d.modules)}

\* The modules of a document, order put aside.
ModuleSet(d) ==
    {[id |-> m.id, artifacts |-> Range(m.artifacts), dependencies |-> Range(m.dependencies)] :
        m \in Range(d.modules)}

Distinct(list, cmp_key) ==
    \A i \in 1..Len(list) : \A j \in 1..Len(list) :
        i # j => cmp_value(list[i], cmp_key) # cmp_value(list[j], cmp_key)

Keyed(list, cmp_key) == \A x \in Range(list) : cmp_value(x, cmp_key) # None

\* Unique module ids; per module, artifacts keyed by distinct names and
\* dependencies keyed by distinct ids.
WellFormed(d) ==
    /\ \A i \in 1..Len(d.modules) : \A j \in 1..Len(d.modules) :
          i # j => d.modules[i].id # d.modules[j].id
    /\ \A m \in Range(d.modules) :
          /\ Keyed(m.artifacts, "name") /\ Distinct(m.artifacts, "name")
          /\ Keyed(m.dependencies, "id") /\ Distinct(m.dependencies, "id")

\* Two entries of the lists under one key that differ (in sha1, or at all).
Clash(l_list, r_list, cmp_key, sha1_only) ==
    \E x \in Range(l_list) : \E y \in Range(r_list) :
        /\ cmp_value(x, cmp_key) # None
        /\ cmp_value(x, cmp_key) = cmp_value(y, cmp_key)
        /\ IF sha1_only THEN x.sha1 # y.sha1 ELSE x # y

Conflict(l, r, sha1_only) ==
    \E m \in Range(l.modules) : \E n \in Range(r.modules) :
        /\ m.id = n.id
        /\ \/ Clash(m.artifacts, n.artifacts, "name", sha1_only)
           \/ Clash(m.dependencies, n.dependencies, "id", sha1_only)

\* The last call was merge_buildinfo(before, Merged).
Called == fileno > 1
Merged == docs[fileno - 1]

\* C1: merge_buildinfo(lhs, rhs) fails whenever a module id of both documents
\* has an artifact of one name, or a dependency of one id, with different sha1
\* on the two sides.
C1_ConflictFails ==
    (Called /\ Conflict(before, Merged, TRUE)) => merr # None

\* C6: merge_buildinfo(d, d) raises nothing and returns a document equal to d,
\* for every well-formed d.
C6_SelfMerge ==
    (fileno = 3 /\ docs[1] = docs[2] /\ WellFormed(docs[1])) =>
        (merr = None /\ build_info = docs[1])

\* C6 witness: a two-module document with artifacts and dependencies, merged with itself.
C6_Witness ==
    /\ fileno = 3 /\ docs[1] = docs[2] /\ WellFormed(docs[1]) /\ merr = None
    /\ Len(docs[1].modules) = 2
    /\ \E m \in Range(build_info.modules) : m.artifacts # <<>> /\ m.dependencies # <<>>

Disjoint(l, r) == ModuleIds(l) \cap ModuleIds(r) = {}

\* C7: for two compatible non-empty documents without a common module id,
\* merge_buildinfo returns the union of their modules, each as it was.
C7_DisjointUnion ==
    (/\ fileno = 3 /\ ~docs[1].empty /\ ~docs[2].empty
     /\ compatible(docs[1], docs[2]) /\ Disjoint(docs[1], docs[2])) =>
        (merr = None /\ ModuleSet(build_info) = ModuleSet(docs[1]) \cup ModuleSet(docs[2]))

Agree(l, r) == (l.empty \/ r.empty \/ compatible(l, r)) /\ ~Conflict(l, r, FALSE)

SameModules(m1, m2) ==
    m1.error = None /\ m2.error = None /\ ModuleSet(m1.value) = ModuleSet(m2.value)

Now == [error |-> merr, value |-> build_info, lhs |-> build_info]

Swapped == merge_buildinfo(docs[2], docs[1])

Regrouped ==
    LET bc == merge_buildinfo(docs[2], docs[3])
    IN  IF bc.error # None THEN bc ELSE merge_buildinfo(docs[1], bc.value)

OrderAndGrouping ==
    /\ (fileno = 3 /\ Agree(docs[1], docs[2])) => SameModules(Now, Swapped)
    /\ (fileno = 4 /\ Agree(docs[1], docs[2]) /\ Agree(docs[1], docs[3])
                   /\ Agree(docs[2], docs[3])) => SameModules(Now, Regrouped)

\* C8: when no name or id of a module carries different contents on two
\* sides, merge(a, b) and merge(b, a) have the same modules, and so have
\* merge(merge(a, b), c) and merge(a, merge(b, c)).
C8_OrderAndGrouping == OrderAndGrouping

\* The same for documents whose entries all carry their key (not a claim's formula:
\* it bounds what C7 and C8 fail on).
AllKeyed == \A i \in 1..Len(docs) : WellFormed(docs[i])

KeyedOrderAndGrouping == AllKeyed => OrderAndGrouping

KeyedDisjointUnion == AllKeyed => C7_DisjointUnion

\* C9: merge_buildinfo of two non-empty documents that differ in version, name
\* or number fails on the compatibility assertion, lhs being left as it was.
C9_IncompatibleFails ==
    (Called /\ ~before.empty /\ ~Merged.empty /\ ~compatible(before, Merged)) =>
        (merr = "AssertionError(compatible)" /\ build_info = before)

\* C9 witness: the assertion has failed on two documents that both have modules,
\* the rhs with a module the lhs lacks.
C9_Witness ==
    /\ Called /\ merr = "AssertionError(compatible)"
    /\ ~compatible(before, Merged)
    /\ before.modules # <<>>
    /\ ~(ModuleIds(Merged) \subseteq ModuleIds(before))

====
